---- MODULE Spec2Model ----
(***************************************************************************)
(* A model of create-bzp-agent's CLI (src/index.ts): main, the consent     *)
(* prompt, setupOllama with installOllama / startOllamaService, the model  *)
(* listing and pull, project generation, dependency installation and the   *)
(* final summary.  External commands are the environment: every exit,      *)
(* spawn error and duration they can produce is a nondeterministic choice. *)
(*                                                                         *)
(* Node's event loop is modelled by two program counters: pc for main and  *)
(* spc for the setupOllama call.  execSync blocks the loop (no timer and   *)
(* no continuation of main runs while it is in progress); awaits on timers *)
(* and on child processes leave the loop free.  The clock counts seconds   *)
(* and is observed by the program only through setTimeout and the timeout  *)
(* option of execSync.                                                     *)
(***************************************************************************)
EXTENDS Integers, Sequences, FiniteSets, TLC

\* ------------------------------------------------------------------ bounds
MaxClock == 48
Margin == 5
MaxRuns == 2
MaxNameLen == 3
MaxExitCode == 127

\* ------------------------------------------------------- program constants
ProbeTimeout == 5
LongProbeTimeout == 10
SettleDelay == 2
InstallDelay == 1
Ceiling == 30

\* ------------------------------------------------------------------ strings
\* A string is a sequence of one-character strings.
UpperChars == <<"A","B","C","D","E","F","G","H","I","J","K","L","M",
                "N","O","P","Q","R","S","T","U","V","W","X","Y","Z">>
LowerChars == <<"a","b","c","d","e","f","g","h","i","j","k","l","m",
                "n","o","p","q","r","s","t","u","v","w","x","y","z">>
WhiteSpace == {" ", "\t", "\n", "\r"}

LowerChar(c) ==
  IF \E i \in 1..26 : UpperChars[i] = c
  THEN LowerChars[CHOOSE i \in 1..26 : UpperChars[i] = c]
  ELSE c

ToLowerCase(s) == [i \in 1..Len(s) |-> LowerChar(s[i])]

RECURSIVE TrimStart(_)
TrimStart(s) ==
  IF s # <<>> /\ Head(s) \in WhiteSpace THEN TrimStart(Tail(s)) ELSE s

RECURSIVE TrimEnd(_)
TrimEnd(s) ==
  IF s # <<>> /\ s[Len(s)] \in WhiteSpace
  THEN TrimEnd(SubSeq(s, 1, Len(s) - 1)) ELSE s

Trim(s) == TrimEnd(TrimStart(s))

\* String.prototype.includes: t occurs in s as a contiguous substring.
Includes(s, t) ==
  \E i \in 1..(Len(s) - Len(t) + 1) : SubSeq(s, i, i + Len(t) - 1) = t

\* String.prototype.endsWith: t is a suffix of s.
EndsWith(s, t) ==
  Len(s) >= Len(t) /\ SubSeq(s, Len(s) - Len(t) + 1, Len(s)) = t

AgentSuffix == <<"-","a","g","e","n","t">>

\* ensureAgentSuffix with the suffix appended to every name.
ensureAgentSuffix_AlwaysAppends(name) == name \o AgentSuffix

\* ensureAgentSuffix, lines 47-52.
ensureAgentSuffix(name) ==
  IF EndsWith(name, AgentSuffix) THEN name ELSE name \o AgentSuffix

\* getBaseName, lines 54-56: name.replace(/-agent$/, "").
getBaseName(name) ==
  IF EndsWith(name, AgentSuffix)
  THEN SubSeq(name, 1, Len(name) - Len(AgentSuffix))
  ELSE name

\* Agent names: a stem of up to MaxNameLen characters followed by an ending
\* that is, repeats, nearly is or contains the suffix.
NameChars == {"x", "-", "t"}
Stems == UNION { [1..n -> NameChars] : n \in 0..MaxNameLen }
Endings ==
  { <<>>, AgentSuffix, AgentSuffix \o AgentSuffix, <<"-","a","g","e","n">>,
    <<"a","g","e","n","t">>, <<"-","A","g","e","n","t">>,
    AgentSuffix \o <<"s">>, AgentSuffix \o <<"/">> }
Names == { st \o e : st \in Stems, e \in Endings }

\* The example of the usage message (line 325).
Chatbot == <<"c","h","a","t","b","o","t">>

\* process.argv.slice(2) of the runs whose bootstrapping is explored.
MainArgs == { <<>>, <<Chatbot>> }

\* What the user may type at the prompt.
Answers ==
  { <<>>, <<"y">>, <<"Y">>, <<"y","e","s">>, <<"Y","E","S">>,
    <<" ","Y","e","s","\n">>, <<"\t","y"," ">>, <<"n">>, <<"N","o">>,
    <<"y","e","p">>, <<"y"," ","e","s">>, <<" ">> }

Platforms == {"macos", "linux", "windows", "unknown"}

\* --------------------------------------------------------------- the model
Model == <<"l","l","a","m","a","3",".","2",":","1","b">>
OtherModel == <<"q","w","e","n",":","0",".","5","b">>
LongerModel == Model \o <<"-","f","p","1","6">>

\* The model stores a host can start with, in listing order.
ModelStores ==
  { <<>>, <<Model>>, <<OtherModel>>, <<LongerModel>>, <<OtherModel, Model>> }

RECURSIVE ListOutput(_)
\* stdout of "ollama list": a header line, then one line per stored model.
ListOutput(store) ==
  IF store = <<>> THEN <<"N","A","M","E","\n">>
  ELSE ListOutput(SubSeq(store, 1, Len(store) - 1))
         \o store[Len(store)] \o <<"\n">>

VARIABLES
  launcher,             \* launcher script: position
  child,                \* launcher script: the spawned CLI process
  code,                 \* launcher script: the code given to the exit handler
  launcherCode,         \* launcher script: the code it exited with
  args,                 \* main: process.argv.slice(2)
  projectName,          \* main: const projectName
  baseName,             \* main: const baseName
  brew,                 \* installOllamaMacOS: what checkCommand("brew") gave
  platform,             \* process.platform, classified by detectPlatform
  onPath,               \* host: is "ollama" resolvable (checkCommand)
  models,               \* host: the runtime's model store
  pc,                   \* main: position
  ollamaInstalled,      \* main: let ollamaInstalled
  shouldInstallOllama,  \* main: let shouldInstallOllama
  ollamaSetupComplete,  \* main: let ollamaSetupComplete
  answer,               \* main: const answer (already normalised)
  spc,                  \* setupOllama: position
  shouldInstall,        \* setupOllama: parameter shouldInstall
  installSuccess,       \* setupOllama: const installSuccess
  installOutcome,       \* how the install attempt ended
  curl, sh,             \* installOllamaLinux: the two child processes
  stdinEnded,           \* installOllamaLinux: sh.stdin.end() was called
  promise,              \* installOllamaLinux: state of the returned promise
  probe1, probe2,       \* startOllamaService: result of each probe
  serve,                \* startOllamaService: the detached "ollama serve"
  svc,                  \* startOllamaService: how the call settled
  output,               \* setupOllama: const output, stdout of the listing
  history,              \* results of earlier runs of the provisioning step
  listing, pull,        \* setupOllama: result of the listing and of the pull
  out,                  \* console: the messages printed, in order
  log,                  \* processes spawned and prompts issued, in order
  clock,                \* seconds
  opDeadline,           \* execSync in progress: when its timeout kills it
  timer,                \* setupOllama / startOllamaService: pending setTimeout
  raceTimer,            \* main: the 30s setTimeout of Promise.race
  kickoff,              \* clock when main called setupOllama(false)
  generated,            \* project files written
  depsResult,           \* how the dependency installation ended
  exitCode,             \* process exit code, -1 while running
  exitCause             \* why the process ended

vars == << launcher, child, code, launcherCode, args, projectName, baseName, brew, platform, onPath, models, pc, ollamaInstalled, shouldInstallOllama,
           ollamaSetupComplete, answer, spc, shouldInstall, installSuccess,
           installOutcome, curl, sh, stdinEnded, promise, probe1, probe2, serve,
           svc, output, history, listing, pull, out, log, clock, opDeadline, timer, raceTimer,
           kickoff, generated, depsResult, exitCode, exitCause >>

nameVars == << args, projectName, baseName >>
launcherVars == << launcher, child, code, launcherCode >>
hostVars == << platform, history, nameVars, brew, launcherVars >>
mainVars == << ollamaInstalled, shouldInstallOllama, ollamaSetupComplete,
               answer >>
linuxVars == << curl, sh, stdinEnded, promise >>
svcVars == << probe1, probe2, svc >>
timeVars == << clock, opDeadline, timer, raceTimer, kickoff >>
coreVars == << generated, depsResult, exitCode, exitCause >>

NoTimer == 0 - 1

\* JavaScript values of the exit handler's argument: null or a number.
Null == [type |-> "null", value |-> 0]
Num(n) == [type |-> "number", value |-> n]

NoCode == 0 - 1

\* The launcher script has spawned the CLI and waits for its events.
Launched ==
  /\ launcher = "spawned"
  /\ child = "running"
  /\ code = Null
  /\ launcherCode = NoCode

\* Everything but the command line, before main's first statement.
Fresh ==
  /\ projectName = <<>>
  /\ baseName = <<>>
  /\ brew = "none"
  /\ platform \in Platforms
  /\ onPath \in BOOLEAN
  /\ models \in ModelStores
  /\ pc = "args"
  /\ ollamaInstalled = FALSE
  /\ shouldInstallOllama = FALSE
  /\ ollamaSetupComplete = FALSE
  /\ answer = <<>>
  /\ spc = "idle"
  /\ shouldInstall = FALSE
  /\ installSuccess = FALSE
  /\ installOutcome = "none"
  /\ curl = "none"
  /\ sh = "none"
  /\ stdinEnded = FALSE
  /\ promise = "none"
  /\ probe1 = "none"
  /\ probe2 = "none"
  /\ serve = "none"
  /\ svc = "none"
  /\ output = <<>>
  /\ history = <<>>
  /\ listing = "none"
  /\ pull = "none"
  /\ out = <<>>
  /\ log = <<>>
  /\ clock = 0
  /\ opDeadline = NoTimer
  /\ timer = NoTimer
  /\ raceTimer = NoTimer
  /\ kickoff = NoTimer
  /\ generated = FALSE
  /\ depsResult = "none"
  /\ exitCode = -1
  /\ exitCause = "none"

Init == args \in MainArgs /\ Fresh /\ Launched

\* ------------------------------------------------------------ console tags
\* Messages the bootstrapper prints when a step did not succeed.
Warnings ==
  { "skip", "brewMissing", "installFailed", "windowsManual", "unsupported",
    "installNotCompleted", "commandNotFound", "notFound", "serviceNotRunning",
    "couldNotStart", "serviceStartFailed", "pullFailed", "setupIssues" }

IsWarning(m) == m \in Warnings
warnings == SelectSeq(out, IsWarning)

Count(seq, e) == Cardinality({ i \in 1..Len(seq) : seq[i] = e })
Has(seq, e) == \E i \in 1..Len(seq) : seq[i] = e

\* ------------------------------------------------------------- event loop
\* setupOllama is suspended at an await whose promise is settled by a timer
\* or by a child process: the loop is free.  (In probe1, probe2 and listing
\* an execSync is in progress and nothing else of the program runs.)
Waiting == spc \in {"brew", "linuxInstall", "installWait", "settle", "pull"}

\* setupOllama(false) has run up to its first await and handed control back
\* to main.
FirstAwait == spc \in {"serviceSettled", "settle", "done"}

\* Continuations of setupOllama run while main is suspended at an await (on
\* setupOllama itself, on the dependency installation or on the race), or
\* after main has finished; main's own synchronous code never interleaves.
PipelineTurn ==
  \/ pc \in {"awaitSetup", "depsWait", "race", "done"}
  \/ pc = "callSetup" /\ ~FirstAwait

\* A due timer callback runs as soon as the loop is free.
TimerDue(t) == t # NoTimer /\ clock >= t

\* ------------------------------------------------------------ main: start
promptUser(raw) == ToLowerCase(Trim(raw))

\* main, line 344, with an empty answer taken as the default yes.
IsAffirmative_EmptyIsYes(a) == a = <<>> \/ a = <<"y">> \/ a = <<"y","e","s">>

\* main, line 344: answer === "y" || answer === "yes".
IsAffirmative(a) == a = <<"y">> \/ a = <<"y","e","s">>

\* main, line 495, without the test of ollamaInstalled.
OpportunisticPass_NotInstalled(installed, should) == ~should

\* main, line 495: ollamaInstalled && !shouldInstallOllama.
OpportunisticPass(installed, should) == installed /\ ~should

SummaryReady(setupComplete, installed) == setupComplete \/ installed

\* runCommand, lines 215-225: how an attached child ends: exit with code 0,
\* exit with another code, exit with a null code (killed by a signal), or
\* an 'error' event (it could not be spawned).
ChildOutcomes == {"exit0", "exitN", "signal", "error"}

\* The exit handler with the exit code ignored: any exit resolves.
ExitOk_AnyExit(r) == r \in {"exit0", "exitN"}

\* runCommand, line 216, and installOllamaLinux, line 111: code === 0.
ExitOk(r) == r = "exit0"

\* main, line 329: const agentName = args[0].
agentName == args[1]

\* main, lines 329-333: the names of the project.
ResolveNames ==
  /\ pc = "args"
  /\ Len(args) # 0
  /\ projectName' = ensureAgentSuffix(agentName)
  /\ baseName' = getBaseName(agentName)
  /\ pc' = "start"
  /\ UNCHANGED << launcherVars, args, brew, platform, history, onPath,
                  models, mainVars, spc, shouldInstall, installSuccess, installOutcome,
                  linuxVars, svcVars, listing, pull, out, log, timeVars,
                  coreVars, serve, output >>

\* main, lines 319-327: no agent name, exit(1).
NoAgentName ==
  /\ pc = "args"
  /\ Len(args) = 0
  /\ pc' = "exited"
  /\ exitCode' = 1
  /\ exitCause' = "noAgentName"
  /\ UNCHANGED << hostVars, onPath, models, mainVars, spc, shouldInstall,
                  installSuccess, installOutcome, linuxVars, svcVars,
                  listing, pull, out, log, timeVars, generated, depsResult,
                  serve, output >>

\* main, line 340, with the prompt issued whatever the check returned.
NeedsPrompt_Always(installed) == TRUE

\* main, line 340: if (!ollamaInstalled).
NeedsPrompt(installed) == ~installed

\* main, lines 336-340: let ollamaInstalled = checkCommand("ollama").
CheckRuntime ==
  /\ pc = "start"
  /\ ollamaInstalled' = onPath
  /\ pc' = IF NeedsPrompt(ollamaInstalled') THEN "prompt" ELSE "generate"
  /\ UNCHANGED << hostVars, onPath, models, shouldInstallOllama,
                  ollamaSetupComplete, answer, spc, shouldInstall,
                  installSuccess, installOutcome, linuxVars, svcVars,
                  listing, pull, out, log, timeVars, coreVars, serve, output
                  >>

\* main, lines 341-358, with setupOllama(true) called but not awaited.
Prompt_Detached ==
  /\ pc = "prompt"
  /\ \E raw \in Answers :
       /\ answer' = promptUser(raw)
       /\ shouldInstallOllama' = IsAffirmative(answer')
  /\ log' = Append(log, "prompt")
  /\ IF shouldInstallOllama'
     THEN /\ pc' = "generate"
          /\ spc' = "check"
          /\ shouldInstall' = TRUE
          /\ out' = out
     ELSE /\ pc' = "generate"
          /\ out' = Append(out, "skip")
          /\ UNCHANGED << spc, shouldInstall >>
  /\ UNCHANGED << hostVars, onPath, models, ollamaInstalled, ollamaSetupComplete,
                  installSuccess, installOutcome, linuxVars, svcVars,
                  listing, pull, timeVars, coreVars, serve, output >>

\* main, lines 341-358: the consent prompt; on yes, call setupOllama(true).
Prompt ==
  /\ pc = "prompt"
  /\ \E raw \in Answers :
       /\ answer' = promptUser(raw)
       /\ shouldInstallOllama' = IsAffirmative(answer')
  /\ log' = Append(log, "prompt")
  /\ IF shouldInstallOllama'
     THEN /\ pc' = "awaitSetup"
          /\ spc' = "check"
          /\ shouldInstall' = TRUE
          /\ out' = out
     ELSE /\ pc' = "generate"
          /\ out' = Append(out, "skip")
          /\ UNCHANGED << spc, shouldInstall >>
  /\ UNCHANGED << hostVars, onPath, models, ollamaInstalled, ollamaSetupComplete,
                  installSuccess, installOutcome, linuxVars, svcVars,
                  listing, pull, timeVars, coreVars, serve, output >>

\* main, lines 348-351: setupOllama(true) resolved.  (It never rejects, so
\* the catch of lines 352-355 has no behaviour.)
SetupResolved ==
  /\ pc = "awaitSetup"
  /\ spc = "done"
  /\ ollamaSetupComplete' = TRUE
  /\ ollamaInstalled' = onPath
  /\ pc' = "generate"
  /\ UNCHANGED << hostVars, onPath, models, shouldInstallOllama, answer, spc,
                  shouldInstall, installSuccess, installOutcome, linuxVars,
                  svcVars, listing, pull, out, log, timeVars, coreVars,
                  serve, output >>

\* main, lines 371-479: exit(1) if the directory exists, else write the files.
Generate ==
  /\ pc = "generate"
  /\ \E exists \in BOOLEAN :
       IF exists
       THEN /\ pc' = "exited"
            /\ exitCode' = 1
            /\ exitCause' = "directoryExists"
            /\ UNCHANGED << generated, log >>
       ELSE /\ pc' = "deps"
            /\ generated' = TRUE
            /\ log' = Append(log, "generate")
            /\ UNCHANGED << exitCode, exitCause >>
  /\ UNCHANGED << hostVars, onPath, models, mainVars, spc, shouldInstall,
                  installSuccess, installOutcome, linuxVars, svcVars,
                  listing, pull, out, timeVars, depsResult, serve, output >>

\* installDependencies, lines 302-310: spawn "<pnpm|npm> install".
InstallDependencies ==
  /\ pc = "deps"
  /\ pc' = "depsWait"
  /\ log' = Append(log, "deps")
  /\ UNCHANGED << hostVars, onPath, models, mainVars, spc, shouldInstall,
                  installSuccess, installOutcome, linuxVars, svcVars,
                  listing, pull, out, timeVars, coreVars, serve, output >>

\* installDependencies, lines 309-315, and main, lines 483-491: the child
\* exited or could not be spawned; a failure is caught and printed.
DependenciesSettled ==
  /\ pc = "depsWait"
  /\ \E r \in ChildOutcomes :
       /\ depsResult' = r
       /\ out' = Append(out, IF ExitOk(r) THEN "depsInstalled"
                                          ELSE "depsFailed")
  /\ pc' = "kickoff"
  /\ UNCHANGED << hostVars, onPath, models, mainVars, spc, shouldInstall,
                  installSuccess, installOutcome, linuxVars, svcVars,
                  listing, pull, log, timeVars, generated, exitCode,
                  exitCause, serve, output >>

\* main, lines 493-499, with the opportunistic call made whenever the
\* runtime is resolvable by then, whatever the answer to the prompt was.
Kickoff_IgnoresConsent ==
  /\ pc = "kickoff"
  /\ IF ollamaInstalled
     THEN /\ pc' = "callSetup"
          /\ spc' = "check"
          /\ shouldInstall' = FALSE
          /\ kickoff' = clock
     ELSE /\ pc' = "report"
          /\ UNCHANGED << spc, shouldInstall, kickoff >>
  /\ UNCHANGED << hostVars, onPath, models, mainVars, installSuccess,
                  installOutcome, linuxVars, svcVars, listing, pull, out,
                  log, clock, opDeadline, timer, raceTimer, coreVars, serve,
                  output >>

\* main, lines 493-499: start setupOllama(false) without awaiting it.
Kickoff ==
  /\ pc = "kickoff"
  /\ IF OpportunisticPass(ollamaInstalled, shouldInstallOllama)
     THEN /\ pc' = "callSetup"
          /\ spc' = "check"
          /\ shouldInstall' = FALSE
          /\ kickoff' = clock
     ELSE /\ pc' = "report"
          /\ UNCHANGED << spc, shouldInstall, kickoff >>
  /\ UNCHANGED << hostVars, onPath, models, mainVars, installSuccess,
                  installOutcome, linuxVars, svcVars, listing, pull, out,
                  log, clock, opDeadline, timer, raceTimer, coreVars, serve,
                  output >>

\* main, lines 502-507: setupOllama(false) returned its promise; arm the 30s
\* timer and await the race.
StartRace ==
  /\ pc = "callSetup"
  /\ FirstAwait
  /\ raceTimer' = clock + Ceiling
  /\ pc' = "race"
  /\ UNCHANGED << hostVars, onPath, models, mainVars, spc, shouldInstall,
                  installSuccess, installOutcome, linuxVars, svcVars,
                  listing, pull, out, log, clock, opDeadline, timer,
                  kickoff, coreVars, serve, output >>

\* main, lines 504-511: the race settles, by setupOllama's promise or by the
\* timer, once the loop is free.
RaceSettled ==
  /\ pc = "race"
  /\ \/ spc = "done"
     \/ Waiting /\ TimerDue(raceTimer) /\ ~TimerDue(timer)
  /\ pc' = "report"
  /\ UNCHANGED << hostVars, onPath, models, mainVars, spc, shouldInstall,
                  installSuccess, installOutcome, linuxVars, svcVars,
                  listing, pull, out, log, timeVars, coreVars, serve, output
                  >>

\* main, lines 513-530: the final summary.
Report ==
  /\ pc = "report"
  /\ out' = Append(out, IF SummaryReady(ollamaSetupComplete, ollamaInstalled)
                        THEN "summaryReady" ELSE "summaryManual")
  /\ pc' = "done"
  /\ exitCode' = 0
  /\ exitCause' = "finished"
  /\ UNCHANGED << hostVars, onPath, models, mainVars, spc, shouldInstall,
                  installSuccess, installOutcome, linuxVars, svcVars,
                  listing, pull, log, timeVars, generated, depsResult,
                  serve, output >>

\* ------------------------------------------------------------ setupOllama
\* setupOllama, lines 229-265: checkCommand("ollama") and the branch on it.
SetupCheck ==
  /\ PipelineTurn
  /\ spc = "check"
  /\ IF ~onPath
     THEN IF shouldInstall
          THEN /\ spc' = "install"
               /\ UNCHANGED << out, opDeadline >>
          ELSE /\ spc' = "done"
               /\ out' = Append(out, "notFound")
               /\ UNCHANGED opDeadline
     ELSE /\ spc' = "probe1"
          /\ out' = Append(out, "installed")
          /\ opDeadline' = clock + ProbeTimeout
  /\ UNCHANGED << hostVars, onPath, models, pc, mainVars, shouldInstall,
                  installSuccess, installOutcome, linuxVars, svcVars,
                  listing, pull, log, clock, timer, raceTimer, kickoff,
                  coreVars, serve, output >>

\* installOllamaMacOS, line 82, with the check of brew left out.
BrewMissing_Never(found) == FALSE

\* installOllamaMacOS, line 82: !checkCommand("brew").
BrewMissing(found) == ~found

\* installOllama, lines 131-133, and installOllamaMacOS, lines 80-86.
installOllamaMacOS ==
  /\ PipelineTurn
  /\ spc = "install"
  /\ platform = "macos"
  /\ \E found \in BOOLEAN :
       /\ brew' = IF found THEN "found" ELSE "missing"
       /\ IF BrewMissing(found)
          THEN \* throw, caught at lines 143-146
               /\ spc' = "installResult"
               /\ installSuccess' = FALSE
               /\ installOutcome' = "brewMissing"
               /\ out' = Append(out, "installFailed")
               /\ log' = log
          ELSE /\ spc' = "brew"
               /\ log' = Append(log, "brew")
               /\ UNCHANGED << out, installSuccess, installOutcome >>
  /\ UNCHANGED << launcherVars, platform, history, nameVars, onPath, models,
                  pc, mainVars, shouldInstall, linuxVars, svcVars, listing, pull, timeVars,
                  coreVars, serve, output >>

\* runCommand("brew", ["install", "ollama"]), lines 207-227, settled; and
\* installOllama, lines 133 and 143-146.
BrewSettled ==
  /\ PipelineTurn
  /\ spc = "brew"
  /\ \E r \in ChildOutcomes :
       /\ installOutcome' = r
       /\ installSuccess' = ExitOk(r)
       /\ out' = IF ExitOk(r) THEN out ELSE Append(out, "installFailed")
       /\ IF r = "exit0" THEN onPath' \in BOOLEAN ELSE onPath' = onPath
  /\ spc' = "installResult"
  /\ UNCHANGED << hostVars, models, pc, mainVars, shouldInstall, linuxVars,
                  svcVars, listing, pull, log, timeVars, coreVars, serve,
                  output >>

\* installOllama, lines 134-135, and installOllamaLinux, lines 88-100: spawn
\* curl and sh and pipe one into the other.
installOllamaLinux ==
  /\ PipelineTurn
  /\ spc = "install"
  /\ platform = "linux"
  /\ spc' = "linuxInstall"
  /\ curl' = "running"
  /\ sh' = "running"
  /\ promise' = "pending"
  /\ log' = log \o <<"curl", "sh">>
  /\ UNCHANGED << hostVars, onPath, models, pc, mainVars, shouldInstall,
                  installSuccess, installOutcome, stdinEnded, svcVars,
                  listing, pull, out, timeVars, coreVars, serve, output >>

\* A promise settles once: later resolve / reject calls are ignored.
Settle(p, to) == IF p = "pending" THEN to ELSE p

\* installOllamaLinux, lines 103-105, without the call of sh.stdin.end().
CurlClose_NoEnd ==
  /\ curl = "running"
  /\ \E r \in {"closed0", "closedN"} : curl' = r
  /\ UNCHANGED << hostVars, onPath, models, pc, mainVars, spc, shouldInstall,
                  installSuccess, installOutcome, sh, promise, svcVars,
                  listing, pull, out, log, timeVars, coreVars, serve, output,
                  stdinEnded >>

\* installOllamaLinux, lines 103-105: curl closed (exit 0 or not); end sh's
\* stdin.
CurlClose ==
  /\ curl = "running"
  /\ \E r \in {"closed0", "closedN"} : curl' = r
  /\ stdinEnded' = TRUE
  /\ UNCHANGED << hostVars, onPath, models, pc, mainVars, spc, shouldInstall,
                  installSuccess, installOutcome, sh, promise, svcVars,
                  listing, pull, out, log, timeVars, coreVars, serve, output
                  >>

\* installOllamaLinux, line 107: curl could not be spawned; 'close' follows
\* the 'error' event.  A spawn failure is reported on the next tick, before
\* any exit or close event of the children.
CurlError ==
  /\ curl = "running"
  /\ sh \in {"running", "error"}
  /\ curl' = "error"
  /\ promise' = Settle(promise, "rejected")
  /\ stdinEnded' = TRUE
  /\ UNCHANGED << hostVars, onPath, models, pc, mainVars, spc, shouldInstall,
                  installSuccess, installOutcome, sh, svcVars, listing,
                  pull, out, log, timeVars, coreVars, serve, output >>

\* installOllamaLinux, lines 110-116: sh exited.  With its stdin still open
\* sh exits only if the script it has read so far makes it exit.
ShExit ==
  /\ sh = "running"
  /\ \E r \in {"exit0", "exitN"} :
       /\ sh' = r
       /\ promise' = Settle(promise, IF ExitOk(r) THEN "resolved"
                                                  ELSE "rejected")
       /\ IF r = "exit0" /\ curl # "error" /\ curl # "closedN"
          THEN onPath' \in BOOLEAN ELSE onPath' = onPath
  /\ UNCHANGED << hostVars, models, pc, mainVars, spc, shouldInstall,
                  installSuccess, installOutcome, curl, stdinEnded, svcVars,
                  listing, pull, out, log, timeVars, coreVars, serve, output
                  >>

\* installOllamaLinux, line 108: sh could not be spawned (reported on the
\* next tick, as for curl).
ShError ==
  /\ sh = "running"
  /\ curl \in {"running", "error"}
  /\ sh' = "error"
  /\ promise' = Settle(promise, "rejected")
  /\ UNCHANGED << hostVars, onPath, models, pc, mainVars, spc, shouldInstall,
                  installSuccess, installOutcome, curl, stdinEnded, svcVars,
                  listing, pull, out, log, timeVars, coreVars, serve, output
                  >>

\* installOllama, lines 135-136 and 143-146: the await on installOllamaLinux
\* continues once the promise is settled.
LinuxInstallSettled ==
  /\ PipelineTurn
  /\ spc = "linuxInstall"
  /\ promise \in {"resolved", "rejected"}
  /\ installSuccess' = (promise = "resolved")
  /\ installOutcome' = IF promise = "resolved" THEN "exit0"
                       ELSE IF sh = "exitN" THEN "exitN" ELSE "error"
  /\ out' = IF promise = "resolved" THEN out ELSE Append(out, "installFailed")
  /\ spc' = "installResult"
  /\ UNCHANGED << hostVars, onPath, models, pc, mainVars, shouldInstall,
                  linuxVars, svcVars, listing, pull, log, timeVars,
                  coreVars, serve, output >>

\* installOllamaWindows returning true, as the macOS and Linux branches do.
installOllamaWindows_ReturnsTrue ==
  /\ PipelineTurn
  /\ spc = "install"
  /\ platform = "windows"
  /\ installSuccess' = TRUE
  /\ installOutcome' = "exit0"
  /\ out' = Append(out, "windowsManual")
  /\ spc' = "installResult"
  /\ UNCHANGED << hostVars, onPath, models, pc, mainVars, shouldInstall,
                  linuxVars, svcVars, listing, pull, log, timeVars,
                  coreVars, serve, output >>

\* installOllama, lines 137-138, and installOllamaWindows, lines 120-125.
installOllamaWindows ==
  /\ PipelineTurn
  /\ spc = "install"
  /\ platform = "windows"
  /\ installSuccess' = FALSE
  /\ installOutcome' = "unsupported"
  /\ out' = Append(out, "windowsManual")
  /\ spc' = "installResult"
  /\ UNCHANGED << hostVars, onPath, models, pc, mainVars, shouldInstall,
                  linuxVars, svcVars, listing, pull, log, timeVars,
                  coreVars, serve, output >>

\* installOllama, lines 139-142: any other platform.
installOllamaUnknown ==
  /\ PipelineTurn
  /\ spc = "install"
  /\ platform = "unknown"
  /\ installSuccess' = FALSE
  /\ installOutcome' = "unsupported"
  /\ out' = Append(out, "unsupported")
  /\ spc' = "installResult"
  /\ UNCHANGED << hostVars, onPath, models, pc, mainVars, shouldInstall,
                  linuxVars, svcVars, listing, pull, log, timeVars,
                  coreVars, serve, output >>

\* setupOllama, lines 237-248: installOllama returned.
InstallResult ==
  /\ PipelineTurn
  /\ spc = "installResult"
  /\ IF ~installSuccess
     THEN /\ out' = Append(out, "installNotCompleted")
          /\ spc' = "done"
          /\ timer' = timer
     ELSE /\ spc' = "installWait"
          /\ timer' = clock + InstallDelay
          /\ out' = out
  /\ UNCHANGED << hostVars, onPath, models, pc, mainVars, shouldInstall,
                  installSuccess, installOutcome, linuxVars, svcVars,
                  listing, pull, log, clock, opDeadline, raceTimer, kickoff,
                  coreVars, serve, output >>

\* setupOllama, line 251, with the verification left out.
CommandNotFound_Skipped(resolvable) == FALSE

\* setupOllama, line 251: !checkCommand("ollama").
CommandNotFound(resolvable) == ~resolvable

\* setupOllama, lines 248-257: the 1s wait is over; verify the installation.
VerifyInstall ==
  /\ PipelineTurn
  /\ spc = "installWait"
  /\ TimerDue(timer)
  /\ timer' = NoTimer
  /\ IF CommandNotFound(onPath)
     THEN /\ out' = Append(out, "commandNotFound")
          /\ spc' = "done"
          /\ UNCHANGED opDeadline
     ELSE /\ out' = Append(out, "installed")
          /\ spc' = "probe1"
          /\ opDeadline' = clock + ProbeTimeout
  /\ UNCHANGED << hostVars, onPath, models, pc, mainVars, shouldInstall,
                  installSuccess, installOutcome, linuxVars, svcVars,
                  listing, pull, log, clock, raceTimer, kickoff, coreVars,
                  serve, output >>

\* ----------------------------------------------------- startOllamaService
\* startOllamaService, line 163, with macOS taken for Windows as well.
IsWindows_NotLinux(p) == p # "linux"

\* startOllamaService, line 163: platform === "windows".
IsWindows(p) == p = "windows"

\* startOllamaService, line 167, with the timeout of the first probe.
SecondProbeTimeout_Short(p) == ProbeTimeout

\* startOllamaService, lines 167 and 186: the timeout of the second probe.
SecondProbeTimeout(p) ==
  IF IsWindows(p) THEN LongProbeTimeout ELSE ProbeTimeout

\* startOllamaService, lines 151-162: the first probe, execSync("ollama
\* list") with a 5s timeout, returned or threw.
FirstProbe ==
  /\ PipelineTurn
  /\ spc = "probe1"
  /\ log' = Append(log, "probe")
  /\ \E ok \in BOOLEAN :
       /\ ok => clock < opDeadline
       /\ IF ok
          THEN /\ probe1' = "ok"
               /\ svc' = "returned"
               /\ out' = Append(out, "serviceRunning")
               /\ spc' = "serviceSettled"
               /\ opDeadline' = NoTimer
          ELSE /\ probe1' = "fail"
               /\ svc' = svc
               /\ out' = Append(out, "startingService")
               /\ spc' = IF IsWindows(platform) THEN "probe2" ELSE "serve"
               /\ opDeadline' = IF IsWindows(platform)
                                THEN clock + SecondProbeTimeout(platform)
                                ELSE NoTimer
  /\ UNCHANGED << hostVars, onPath, models, pc, mainVars, shouldInstall,
                  installSuccess, installOutcome, linuxVars, probe2,
                  listing, pull, clock, timer, raceTimer, kickoff, coreVars,
                  serve, output >>

\* startOllamaService, lines 176-183: spawn "ollama serve" detached, unref
\* it, and wait 2s.  A synchronous throw of spawn is caught at line 188.
StartService ==
  /\ PipelineTurn
  /\ spc = "serve"
  /\ log' = Append(log, "serve")
  /\ \E threw \in BOOLEAN :
       IF threw
       THEN /\ serve' = "threw"
            /\ svc' = "threw"
            /\ out' = Append(out, "couldNotStart")
            /\ spc' = "serviceSettled"
            /\ timer' = timer
       ELSE /\ serve' = "spawned"
            /\ spc' = "settle"
            /\ timer' = clock + SettleDelay
            /\ UNCHANGED << svc, out >>
  /\ UNCHANGED << hostVars, onPath, models, pc, mainVars, shouldInstall,
                  installSuccess, installOutcome, linuxVars, probe1, probe2,
                  listing, pull, clock, opDeadline, raceTimer, kickoff,
                  coreVars, output >>

\* startOllamaService, lines 177-180: the child has no 'error' listener, so
\* a spawn failure reported by the 'error' event (on the next tick) is an
\* uncaught exception: Node prints it and the process exits with code 1.
ServiceSpawnError ==
  /\ pc \in {"awaitSetup", "race"}
  /\ spc = "settle"
  /\ clock + SettleDelay = timer
  /\ serve' = "error"
  /\ pc' = "crashed"
  /\ spc' = "dead"
  /\ exitCode' = 1
  /\ exitCause' = "uncaughtException"
  /\ UNCHANGED << hostVars, onPath, models, mainVars, shouldInstall,
                  installSuccess, installOutcome, linuxVars, svcVars,
                  listing, pull, out, log, timeVars, generated, depsResult,
                  output >>

\* startOllamaService, lines 183-186: the 2s wait is over.
SettleDone ==
  /\ PipelineTurn
  /\ spc = "settle"
  /\ TimerDue(timer)
  /\ timer' = NoTimer
  /\ spc' = "probe2"
  /\ opDeadline' = clock + SecondProbeTimeout(platform)
  /\ UNCHANGED << hostVars, onPath, models, pc, mainVars, shouldInstall,
                  installSuccess, installOutcome, linuxVars, svcVars,
                  listing, pull, out, log, clock, raceTimer, kickoff,
                  coreVars, serve, output >>

\* startOllamaService, lines 166-173 (Windows, 10s timeout) and 186-192
\* (macOS / Linux, 5s timeout): the second probe returned or threw.
SecondProbe ==
  /\ PipelineTurn
  /\ spc = "probe2"
  /\ log' = Append(log, "probe")
  /\ \E ok \in BOOLEAN :
       /\ ok => clock < opDeadline
       /\ probe2' = IF ok THEN "ok" ELSE "fail"
       /\ svc' = IF ok THEN "returned" ELSE "threw"
       /\ out' = Append(out,
                   IF IsWindows(platform)
                   THEN (IF ok THEN "serviceRunning" ELSE "serviceNotRunning")
                   ELSE (IF ok THEN "serviceStarted" ELSE "couldNotStart"))
  /\ spc' = "serviceSettled"
  /\ opDeadline' = NoTimer
  /\ UNCHANGED << hostVars, onPath, models, pc, mainVars, shouldInstall,
                  installSuccess, installOutcome, linuxVars, probe1,
                  listing, pull, clock, timer, raceTimer, kickoff, coreVars,
                  serve, output >>

\* setupOllama, lines 268-275, with the error of startOllamaService
\* swallowed and the flow falling through to the listing.
ServiceFailed_Swallowed(s) == FALSE

\* setupOllama, lines 268-270: the catch is taken iff startOllamaService
\* threw.
ServiceFailed(s) == s = "threw"

\* setupOllama, lines 268-275: the await on startOllamaService continues.
ServiceSettled ==
  /\ PipelineTurn
  /\ spc = "serviceSettled"
  /\ IF ServiceFailed(svc)
     THEN /\ out' = Append(out, "serviceStartFailed")
          /\ spc' = "done"
     ELSE /\ spc' = "listing"
          /\ out' = out
  /\ UNCHANGED << hostVars, onPath, models, pc, mainVars, shouldInstall,
                  installSuccess, installOutcome, linuxVars, svcVars,
                  listing, pull, log, timeVars, coreVars, serve, output >>

\* ------------------------------------------------------ model provisioning
\* setupOllama, line 280, comparing the whole output with the model name.
ModelListed_WholeOutput(text) == text = Model

\* setupOllama, line 280: output.includes("llama3.2:1b").
ModelListed(text) == Includes(text, Model)

\* setupOllama, lines 278-286, with a failed listing ending the step.
ShortCircuit_OnFailure(ok, text) == ~ok \/ ModelListed(text)

\* setupOllama, lines 278-286: the return of line 282 is reached iff the
\* listing returned and its output has the model; a throw is swallowed.
ShortCircuit(ok, text) == ok /\ ModelListed(text)

\* setupOllama, lines 277-294: execSync("ollama list") without a timeout
\* returned or threw; unless the model is listed, spawn "ollama pull".
ListModels ==
  /\ PipelineTurn
  /\ spc = "listing"
  /\ \E ok \in BOOLEAN :
       /\ listing' = IF ok THEN "ok" ELSE "fail"
       /\ output' = IF ok THEN ListOutput(models) ELSE <<>>
       /\ IF ShortCircuit(ok, output')
          THEN /\ out' = Append(out, "modelAvailable")
               /\ spc' = "done"
               /\ log' = Append(log, "list")
          ELSE /\ out' = Append(out, "pulling")
               /\ spc' = "pull"
               /\ log' = log \o <<"list", "pull">>
  /\ UNCHANGED << hostVars, onPath, models, pc, mainVars, shouldInstall,
                  installSuccess, installOutcome, linuxVars, svcVars, pull,
                  timeVars, coreVars, serve >>

\* runCommand("ollama", ["pull", model]), lines 207-227, settled; and
\* setupOllama, lines 293-299.
PullSettled ==
  /\ PipelineTurn
  /\ spc = "pull"
  /\ \E r \in ChildOutcomes :
       /\ pull' = r
       /\ out' = Append(out, IF ExitOk(r) THEN "modelReady"
                                          ELSE "pullFailed")
       /\ models' = IF r = "exit0" /\ ~Has(models, Model)
                    THEN Append(models, Model) ELSE models
  /\ spc' = "done"
  /\ UNCHANGED << hostVars, onPath, pc, mainVars, shouldInstall, installSuccess,
                  installOutcome, linuxVars, svcVars, listing, log,
                  timeVars, coreVars, serve, output >>

\* setupOllama, lines 277-299, executed again against the same host: the
\* results of the execution that has returned are kept in history.
Reinvoke ==
  /\ spc = "done"
  /\ Len(history) < MaxRuns - 1
  /\ history' = Append(history, [listing |-> listing, pull |-> pull])
  /\ spc' = "listing"
  /\ listing' = "none"
  /\ pull' = "none"
  /\ output' = <<>>
  /\ UNCHANGED << launcherVars, platform, nameVars, brew, onPath, models,
                  pc, mainVars, shouldInstall, installSuccess, installOutcome, linuxVars,
                  svcVars, serve, out, log, timeVars, coreVars >>

\* -------------------------------------------------------------------- time
\* A second passes, where a timer or a timeout can observe it: while an
\* execSync with a timeout is in progress, while setupOllama waits on its
\* own timer, and, with the race timer armed, while the listing or the pull
\* is in progress.
Tick ==
  /\ clock < MaxClock
  /\ pc \in {"awaitSetup", "race"}
  /\ \/ spc \in {"probe1", "probe2"} /\ clock < opDeadline
     \/ spc = "listing" /\ pc = "race"
     \/ spc \in {"installWait", "settle"} /\ ~TimerDue(timer)
     \/ spc = "pull" /\ pc = "race" /\ ~TimerDue(raceTimer)
  /\ clock' = clock + 1
  /\ UNCHANGED << hostVars, onPath, models, pc, mainVars, spc, shouldInstall,
                  installSuccess, installOutcome, linuxVars, svcVars,
                  listing, pull, out, log, opDeadline, timer, raceTimer,
                  kickoff, coreVars, serve, output >>

Next ==
  \/ NoAgentName
  \/ ResolveNames
  \/ CheckRuntime
  \/ Prompt
  \/ SetupResolved
  \/ Generate
  \/ InstallDependencies
  \/ DependenciesSettled
  \/ Kickoff
  \/ StartRace
  \/ RaceSettled
  \/ Report
  \/ SetupCheck
  \/ installOllamaMacOS
  \/ BrewSettled
  \/ installOllamaLinux
  \/ CurlClose
  \/ CurlError
  \/ ShExit
  \/ ShError
  \/ LinuxInstallSettled
  \/ installOllamaWindows
  \/ installOllamaUnknown
  \/ InstallResult
  \/ VerifyInstall
  \/ FirstProbe
  \/ StartService
  \/ ServiceSpawnError
  \/ SettleDone
  \/ SecondProbe
  \/ ServiceSettled
  \/ ListModels
  \/ PullSettled
  \/ Tick

Spec == Init /\ [][Next]_vars

\* The provisioning step on its own: setupOllama(false) has just seen the
\* first probe succeed (the state main reaches on a host with the runtime
\* on the path and the service up), and the step runs MaxRuns times.
ProvInit ==
  /\ Launched
  /\ args = <<Chatbot>>
  /\ projectName = ensureAgentSuffix(agentName)
  /\ baseName = getBaseName(agentName)
  /\ brew = "none"
  /\ platform \in Platforms
  /\ onPath = TRUE
  /\ models \in ModelStores
  /\ pc = "race"
  /\ ollamaInstalled = TRUE
  /\ shouldInstallOllama = FALSE
  /\ ollamaSetupComplete = FALSE
  /\ answer = <<>>
  /\ spc = "listing"
  /\ shouldInstall = FALSE
  /\ installSuccess = FALSE
  /\ installOutcome = "none"
  /\ curl = "none"
  /\ sh = "none"
  /\ stdinEnded = FALSE
  /\ promise = "none"
  /\ probe1 = "ok"
  /\ probe2 = "none"
  /\ serve = "none"
  /\ svc = "returned"
  /\ output = <<>>
  /\ history = <<>>
  /\ listing = "none"
  /\ pull = "none"
  /\ out = <<"depsInstalled", "installed", "serviceRunning">>
  /\ log = <<"generate", "deps", "probe">>
  /\ clock = 0
  /\ opDeadline = NoTimer
  /\ timer = NoTimer
  /\ raceTimer = Ceiling
  /\ kickoff = 0
  /\ generated = TRUE
  /\ depsResult = "exit0"
  /\ exitCode = 0 - 1
  /\ exitCause = "none"

ProvNext ==
  \/ ListModels
  \/ PullSettled
  \/ Reinvoke

ProvSpec == ProvInit /\ [][ProvNext]_vars

\* ------------------------------------------------------- the piped install
\* A run on Linux without the runtime, from main's first statement to the
\* result of installOllama.  The producer terminates and the shell exits once
\* its input has ended; nothing else is assumed of the two children.
LinuxInstallInit ==
  /\ Init
  /\ args # <<>>
  /\ platform = "linux"
  /\ ~onPath

LinuxInstallNext ==
  \/ ResolveNames
  \/ CheckRuntime
  \/ Prompt
  \/ SetupCheck
  \/ installOllamaLinux
  \/ CurlClose
  \/ CurlError
  \/ ShExit
  \/ ShError
  \/ LinuxInstallSettled

LinuxInstallSpec ==
  /\ LinuxInstallInit
  /\ [][LinuxInstallNext]_vars
  /\ WF_vars(CurlClose)
  /\ WF_vars(stdinEnded /\ ShExit)
  /\ WF_vars(LinuxInstallSettled)

\* ----------------------------------------------------- the launcher script
cliVars == << nameVars, brew, platform, history, onPath, models, pc,
              mainVars, spc, shouldInstall, installSuccess, installOutcome,
              linuxVars, svcVars, listing, pull, out, log, timeVars,
              coreVars, serve, output >>

\* Launcher, line 34, with every failure of the child reported as 1.
LauncherExitCode_OneOnFailure(c) ==
  IF c.type = "null" \/ c.value = 0 THEN 0 ELSE 1

\* Launcher, line 34: code || 0.
LauncherExitCode(c) ==
  IF c.type = "null" \/ c.value = 0 THEN 0 ELSE c.value

\* Launcher, lines 28-31: spawn(tsxPath, [scriptPath, ...args]).  A throw of
\* spawn at the top level of the script is an uncaught exception: exit 1.
LauncherSpawn ==
  /\ launcher = "start"
  /\ \E threw \in BOOLEAN :
       IF threw
       THEN /\ launcher' = "exited"
            /\ child' = "error"
            /\ launcherCode' = 1
       ELSE /\ launcher' = "spawned"
            /\ child' = "running"
            /\ launcherCode' = launcherCode
  /\ UNCHANGED << code, cliVars >>

\* The child ends: it exits with a code, or is killed by a signal (the exit
\* event then carries a null code).
ChildExits ==
  /\ launcher = "spawned"
  /\ child = "running"
  /\ child' = "exited"
  /\ code' \in { Num(n) : n \in 0..MaxExitCode } \cup { Null }
  /\ UNCHANGED << launcher, launcherCode, cliVars >>

\* The child could not be spawned: the 'error' event.
ChildSpawnError ==
  /\ launcher = "spawned"
  /\ child = "running"
  /\ child' = "error"
  /\ UNCHANGED << launcher, code, launcherCode, cliVars >>

\* Launcher, lines 33-35: child.on('exit', code => process.exit(code || 0)).
OnChildExit ==
  /\ launcher = "spawned"
  /\ child = "exited"
  /\ launcherCode' = LauncherExitCode(code)
  /\ launcher' = "exited"
  /\ UNCHANGED << child, code, cliVars >>

\* Launcher, lines 37-41: child.on('error', ...): print, process.exit(1).
OnChildError ==
  /\ launcher = "spawned"
  /\ child = "error"
  /\ launcherCode' = 1
  /\ launcher' = "exited"
  /\ UNCHANGED << child, code, cliVars >>

LauncherInit ==
  /\ args \in MainArgs
  /\ Fresh
  /\ launcher = "start"
  /\ child = "none"
  /\ code = Null
  /\ launcherCode = NoCode

LauncherNext ==
  \/ LauncherSpawn
  \/ ChildExits
  \/ ChildSpawnError
  \/ OnChildExit
  \/ OnChildError

LauncherSpec == LauncherInit /\ [][LauncherNext]_vars

\* ------------------------------------------------------- the project names
\* main from its first statement to the generation of the project, for every
\* command line of Names and for none; the runtime is on the path, so that
\* no prompt comes before the generation.
NameInit ==
  /\ args \in { <<>> } \cup { <<n>> : n \in Names }
  /\ Fresh
  /\ Launched
  /\ platform = "linux"
  /\ onPath
  /\ models = <<Model>>

NameNext ==
  \/ NoAgentName
  \/ ResolveNames
  \/ CheckRuntime
  \/ Generate

NameSpec == NameInit /\ [][NameNext]_vars

TypeOK ==
  /\ launcher \in {"start", "spawned", "exited"}
  /\ child \in {"none", "running", "exited", "error"}
  /\ code \in { Num(n) : n \in 0..MaxExitCode } \cup { Null }
  /\ launcherCode \in NoCode..MaxExitCode
  /\ args \in { <<>> } \cup { <<n>> : n \in Names \cup { Chatbot } }
  /\ projectName \in { <<>> } \cup { ensureAgentSuffix(a[1]) : a \in {args} \ {<<>>} }
  /\ baseName \in { <<>> } \cup { getBaseName(a[1]) : a \in {args} \ {<<>>} }
  /\ brew \in {"none", "found", "missing"}
  /\ platform \in Platforms
  /\ pc \in {"args", "start", "prompt", "awaitSetup", "generate", "deps", "depsWait",
             "kickoff", "callSetup", "race", "report", "done", "exited",
             "crashed"}
  /\ spc \in {"idle", "check", "install", "brew", "linuxInstall",
              "installResult", "installWait", "probe1", "serve", "settle",
              "probe2", "serviceSettled", "listing", "pull", "done", "dead"}
  /\ clock \in 0..MaxClock

\* ================================================================ claims
InstallCommands == {"brew", "curl", "sh"}
ServiceCommands == {"probe", "serve"}
ProvisionCommands == {"list", "pull"}

Spawned(cmds) == \E i \in 1..Len(log) : log[i] \in cmds

Prompted == Has(log, "prompt")
Declined == Prompted /\ ~IsAffirmative(answer)

\* C1  Consent gate: when the runtime was not resolvable at startup (so the
\* prompt was issued) and the normalised answer is neither "y" nor "yes",
\* no install command (brew, curl, sh) has been spawned, in any state of
\* the run and on every platform.
C1_ConsentGate ==
  (Prompted /\ answer # <<"y">> /\ answer # <<"y","e","s">>)
    => ~Spawned(InstallCommands)

C1_Witness ==
  /\ pc = "done"
  /\ Prompted
  /\ answer = <<>>
  /\ ~Spawned(InstallCommands)

\* C2  Timeout bound: once the opportunistic setupOllama(false) was started,
\* main is at its final reporting whenever more than the 30s ceiling plus
\* the margin has passed since the start.
C2_TimeoutBound ==
  (kickoff # NoTimer /\ clock > kickoff + Ceiling + Margin)
    => pc \in {"report", "done"}

\* C3  Best-effort, never fatal: no error of a bootstrapper step ends the
\* process, a process exit with a non-zero code is one the core itself
\* makes (no agent name, directory exists), and a run that reaches its end
\* has generated the project files and run the dependency installation.
C3_NeverFatal ==
  /\ pc # "crashed"
  /\ exitCode > 0 => exitCause \in {"noAgentName", "directoryExists"}
  /\ pc = "done" => generated /\ depsResult # "none"

ServiceVerified == svc = "returned"
ModelIsReady == Has(out, "modelAvailable") \/ Has(out, "modelReady")
FullyReady == onPath /\ ServiceVerified /\ ModelIsReady

\* C4  Final summary: when main prints its summary, it prints the "fully
\* ready" variant if the runtime is installed, the service was verified
\* running and the model is ready, and the "needs manual setup" variant in
\* every other outcome.
C4_FinalSummary ==
  [][ (pc = "report" /\ pc' = "done")
        => /\ Has(out', "summaryReady") <=> FullyReady
           /\ Has(out', "summaryManual") <=> ~FullyReady ]_vars

InstallFailedNonZero == shouldInstallOllama /\ installOutcome = "exitN"

C6_ProvisionAfterService ==
  /\ (Spawned(ProvisionCommands) \/ spc \in {"listing", "pull"})
       => /\ svc = "returned"
          /\ probe1 = "ok" \/ probe2 = "ok"
          /\ Has(log, "probe")
  /\ svc = "threw"
       => /\ ~Spawned(ProvisionCommands)
          /\ spc \in {"serviceSettled", "done"}
          /\ spc = "done" => Has(out, "serviceStartFailed")

C6_Witness ==
  /\ svc = "threw"
  /\ spc = "done"
  /\ pc = "done"
  /\ Has(out, "serviceStartFailed")
  /\ ~Spawned(ProvisionCommands)

\* The target model is one of the lines of the listing.
TargetListed ==
  /\ listing = "ok"
  /\ Includes(<<"\n">> \o output, <<"\n">> \o Model \o <<"\n">>)

AlreadyReady == ~Prompted /\ probe1 = "ok" /\ TargetListed

\* C8  Scenario already-ready: the runtime was resolvable at startup, the
\* first probe succeeded and the target model is in the listing.  Then no
\* warning was emitted, there was no prompt, no detached start and no pull,
\* setupOllama has returned, and the run ends with the runtime installed,
\* the service reported running and the model reported available.
C8_AlreadyReady ==
  AlreadyReady =>
    /\ warnings = <<>>
    /\ ~Has(log, "serve")
    /\ ~Has(log, "pull")
    /\ Count(log, "probe") = 1
    /\ spc = "done"
    /\ ollamaInstalled
    /\ Has(out, "serviceRunning")
    /\ Has(out, "modelAvailable")
    /\ pc \in {"race", "report", "done"}

C8_Witness ==
  /\ AlreadyReady
  /\ pc = "done"
  /\ Has(out, "modelAvailable")
  /\ warnings = <<>>

\* C10  Scenario declined: the runtime was absent and the user declined.
\* Then the skip notice is the only warning, no probe, start, listing or
\* pull is ever executed, nothing is reported installed, running or ready,
\* and the final summary is the "needs manual setup" variant.
C10_Declined ==
  Declined =>
    /\ warnings = <<"skip">>
    /\ ~Spawned(InstallCommands \cup ServiceCommands \cup ProvisionCommands)
    /\ spc = "idle"
    /\ ~ollamaInstalled
    /\ ~Has(out, "installed")
    /\ ~Has(out, "serviceRunning") /\ ~Has(out, "serviceStarted")
    /\ ~ModelIsReady
    /\ ~Has(out, "summaryReady")
    /\ pc = "done" => out[Len(out)] = "summaryManual"

C10_Witness ==
  /\ Declined
  /\ pc = "done"
  /\ platform = "linux"
  /\ Has(out, "summaryManual")

\* The execution e of the provisioning step left the model ready: the
\* listing matched, or the pull exited with 0.
LeftReady(e) ==
  \/ e.listing = "ok" /\ e.pull = "none"
  \/ e.pull = "exit0"

\* C7 as stated  Idempotence of provisioning: over two successive
\* executions of the provisioning step the pull command is spawned at most
\* once in total.
C7_PullAtMostOnce == Count(log, "pull") <= 1

\* C7 amended  When an execution of the provisioning step left the model
\* ready and the listing of the next execution succeeds, that execution
\* short-circuits through the listing check: it spawns no pull, so no pull
\* is added to those of the earlier executions.
C7_IdempotentWhenReady ==
  (history # <<>> /\ LeftReady(history[Len(history)]) /\ listing = "ok")
    => /\ pull = "none"
       /\ spc = "done"
       /\ out[Len(out)] = "modelAvailable"
       /\ Count(log, "pull") <= Len(history)

C7_Witness ==
  /\ Len(history) = 1
  /\ history[1].pull = "exit0"
  /\ listing = "ok"
  /\ spc = "done"
  /\ Count(log, "pull") = 1

UnixProbeFailed == platform \in {"macos", "linux"} /\ probe1 = "fail"
ServiceStepEnded == svc # "none" \/ pc = "crashed"

\* C9 as stated  Scenario start-then-reprobe: on macOS or Linux, when the
\* first probe failed, startOllamaService has, by its end, issued exactly
\* one detached start and exactly one further probe; the service is
\* reported running if that probe succeeded, and the step ended with a
\* warning if it failed.
C9_StartThenReprobe ==
  (UnixProbeFailed /\ ServiceStepEnded)
    => /\ Count(log, "serve") = 1
       /\ Count(log, "probe") = 2
       /\ probe2 = "ok" => svc = "returned" /\ Has(out, "serviceStarted")
       /\ probe2 = "fail" => svc = "threw" /\ Has(out, "couldNotStart")

\* C9 amended  On macOS or Linux, when the first probe failed,
\* startOllamaService makes exactly one attempt at a detached start and at
\* most one further probe.  If the start was spawned, the step ends only
\* after the settle interval and exactly one further probe: on success the
\* service is reported started and provisioning proceeds, on failure the
\* step ends with a warning and nothing is provisioned.  If the start was
\* not spawned, no further probe is issued: a synchronous throw ends the
\* step with the warning, a spawn error ends the process.
C9_StartThenReprobeAmended ==
  /\ [](UnixProbeFailed =>
         /\ Count(log, "serve") <= 1
         /\ Count(log, "probe") <= 2
         /\ spc # "serve" => Count(log, "serve") = 1
         /\ (serve = "spawned" /\ svc # "none")
              => Count(log, "probe") = 2 /\ probe2 # "none"
         /\ probe2 # "none" => serve = "spawned" /\ svc # "none"
         /\ probe2 = "ok"
              => /\ svc = "returned"
                 /\ Has(out, "serviceStarted")
                 /\ ~Has(out, "serviceStartFailed")
                 /\ spc \in {"serviceSettled", "listing", "pull", "done"}
                 /\ spc = "done" => Has(log, "list")
         /\ probe2 = "fail"
              => /\ svc = "threw"
                 /\ Has(out, "couldNotStart")
                 /\ ~Spawned(ProvisionCommands)
                 /\ spc \in {"serviceSettled", "done"}
         /\ serve = "threw"
              => /\ svc = "threw"
                 /\ probe2 = "none"
                 /\ Count(log, "probe") = 1
                 /\ Has(out, "couldNotStart")
         /\ serve = "error" => pc = "crashed" /\ Count(log, "probe") = 1)
  /\ [][(spc = "settle" /\ spc' = "probe2")
          => timer # NoTimer /\ clock >= timer]_vars

C9_Witness ==
  /\ UnixProbeFailed
  /\ serve = "spawned"
  /\ probe2 = "ok"
  /\ Count(log, "serve") = 1
  /\ Count(log, "probe") = 2
  /\ spc = "pull"

FetchFailed == curl \in {"closedN", "error"}

\* C11  Linux fetch failure: on Linux, once the process that fetches the
\* install script has failed (spawn error or non-zero exit), installOllama
\* returns false: the install is not reported as succeeded.
C11_FetchFailure ==
  (platform = "linux" /\ FetchFailed /\ installOutcome # "none")
    => ~installSuccess /\ installOutcome # "exit0"

InstallReportedOk == installSuccess /\ spc \notin {"installResult", "installWait"}

\* C12  Post-install verification: after installOllama reported success,
\* setupOllama goes on to the service supervisor only with the executable
\* resolvable; if it is not resolvable, setupOllama returns with the
\* "command not found" warning, no probe, start, listing or pull is made, no
\* error ends the process, and main goes on to generate the files and
\* install the dependencies.
C12_PostInstallVerification ==
  /\ (InstallReportedOk /\ ~onPath)
       => /\ spc = "done"
          /\ warnings = <<"commandNotFound">>
          /\ ~Spawned(ServiceCommands \cup ProvisionCommands)
          /\ pc \notin {"crashed", "callSetup", "race"}
          /\ exitCode > 0 => exitCause = "directoryExists"
          /\ pc \in {"kickoff", "report", "done"}
               => generated /\ depsResult # "none"
  /\ (InstallReportedOk /\ onPath) => Has(out, "installed")
  /\ (shouldInstall /\ Spawned(ServiceCommands)) => installSuccess /\ onPath

C12_Witness ==
  /\ InstallReportedOk
  /\ ~onPath
  /\ pc = "done"
  /\ generated
  /\ depsResult = "exit0"
  /\ warnings = <<"commandNotFound">>

PresentAtStartup == ollamaInstalled /\ ~Prompted

Scaffolded == exitCause \in {"none", "finished"}

C14_ProjectNameSuffix ==
  pc \notin {"args", "exited"} \/ generated
    => /\ projectName = ensureAgentSuffix(agentName)
       /\ EndsWith(projectName, AgentSuffix)
       /\ EndsWith(agentName, AgentSuffix) => projectName = agentName
       /\ ~EndsWith(agentName, AgentSuffix)
            => projectName = agentName \o AgentSuffix
       /\ ensureAgentSuffix(projectName) = projectName
       /\ getBaseName(projectName) = getBaseName(agentName)
       /\ baseName = getBaseName(projectName)
       /\ baseName \o AgentSuffix = projectName

C14_Witness ==
  /\ generated
  /\ agentName = <<"x","-","t">> \o AgentSuffix \o AgentSuffix
  /\ projectName = agentName
  /\ baseName = <<"x","-","t">> \o AgentSuffix

\* C15  Bootstrapper ordering: every bootstrapper action (runtime install,
\* service probe or start, model listing or pull) is performed only after
\* the project files have been generated, on the consent-install path and
\* on the opportunistic path.
C15_AfterGeneration ==
  Spawned(InstallCommands \cup ServiceCommands \cup ProvisionCommands)
    => generated

\* C16  Verbatim model match: the provisioning step short-circuits as
\* already-ready exactly when the listing has a model whose name equals the
\* target name; a listing with other names only, names that contain the
\* target as a proper substring included, leads to a pull.
C16_VerbatimMatch ==
  listing = "ok"
    => /\ Has(out, "modelAvailable") <=> TargetListed
       /\ ~TargetListed => Has(log, "pull")

Settled == promise \in {"resolved", "rejected"}

\* C17  Piped shell install, as stated: the install promise is resolved if
\* and only if the consumer exits with code 0.
C17_SoleJudge ==
  (Settled /\ sh \in {"exit0", "exitN"})
    => (promise = "resolved" <=> sh = "exit0")

\* C17  Piped shell install, amended: sh's stdin is ended whenever curl has
\* closed; the promise settles exactly once; it is resolved only if sh exited
\* with code 0, and is resolved whenever sh exits with code 0 before any
\* spawn error of curl or sh; and, the producer terminating and the shell
\* exiting on end-of-input, the promise eventually settles and installOllama
\* returns.
C17_PipedInstall ==
  /\ [](curl \in {"closed0", "closedN", "error"} => stdinEnded)
  /\ [][Settled => promise' = promise]_vars
  /\ [](promise = "resolved" => sh = "exit0")
  /\ []((sh = "exit0" /\ curl # "error") => promise = "resolved")
  /\ []((sh = "exitN" \/ sh = "error") => promise = "rejected")
  /\ [](installOutcome # "none" => (installSuccess <=> promise = "resolved"))
  /\ (promise = "pending" ~> Settled)
  /\ (promise = "pending" ~> installOutcome # "none")

C17_Witness ==
  /\ curl = "closedN"
  /\ sh = "exit0"
  /\ stdinEnded
  /\ promise = "resolved"
  /\ installOutcome = "exit0"

WindowsProbeFailed == platform = "windows" /\ probe1 = "fail"

\* C18  Windows service supervision: on Windows, when the first probe has
\* failed, no service start is ever spawned; exactly one second probe is
\* issued, with the 10s timeout; and when it fails the step ends with the
\* warning, with no further probe, no start and no provisioning.
C18_WindowsSupervision ==
  /\ [](WindowsProbeFailed
          => /\ serve = "none"
             /\ ~Has(log, "serve")
             /\ spc \notin {"serve", "settle"}
             /\ Count(log, "probe") <= 2
             /\ spc = "probe2" <=> probe2 = "none"
             /\ probe2 # "none" => Count(log, "probe") = 2
             /\ probe2 = "fail"
                  => /\ svc = "threw"
                     /\ Has(out, "serviceNotRunning")
                     /\ spc \in {"serviceSettled", "done"}
                     /\ spc = "done" => Has(out, "serviceStartFailed")
                     /\ ~Spawned(ProvisionCommands))
  /\ [][(platform = "windows" /\ spc # "probe2" /\ spc' = "probe2")
          => opDeadline' = clock' + LongProbeTimeout]_vars

C18_Witness ==
  /\ WindowsProbeFailed
  /\ probe2 = "fail"
  /\ spc = "done"
  /\ Count(log, "probe") = 2
  /\ Has(out, "serviceStartFailed")

NoUnattendedInstall == platform \in {"windows", "unknown"}

Guidance == IF platform = "windows" THEN "windowsManual" ELSE "unsupported"

\* C19  No unattended install on Windows or Unknown: on both platforms
\* installOllama spawns no process and returns false (the Unsupported
\* outcome), and from the install step to the return of setupOllama the two
\* platforms go through the same states: the manual guidance, the "not
\* completed" warning, no wait, no verification, no probe, start, listing or
\* pull.
C19_NoUnattendedInstall ==
  NoUnattendedInstall
    => /\ ~Spawned(InstallCommands)
       /\ brew = "none" /\ curl = "none" /\ sh = "none" /\ promise = "none"
       /\ ~installSuccess
       /\ installOutcome \in {"none", "unsupported"}
       /\ spc \notin {"brew", "linuxInstall", "installWait"}
       /\ shouldInstall
            => /\ ~Spawned(ServiceCommands \cup ProvisionCommands)
               /\ spc \in {"check", "install", "installResult", "done"}
               /\ spc \in {"check", "install"} <=> installOutcome = "none"
               /\ clock = 0 /\ timer = NoTimer /\ opDeadline = NoTimer
               /\ spc = "installResult" => out = <<Guidance>>
               /\ spc = "done"
                    => SubSeq(out, 1, 2) = <<Guidance, "installNotCompleted">>
               /\ pc = "awaitSetup" => log = <<"prompt">>

C19_Witness ==
  /\ platform = "unknown"
  /\ installOutcome = "unsupported"
  /\ pc = "awaitSetup"
  /\ spc = "done"
  /\ out = <<"unsupported", "installNotCompleted">>
  /\ log = <<"prompt">>

\* C20  macOS install precondition: on macOS "brew install ollama" is
\* spawned only when checkCommand("brew") succeeded; when it failed,
\* installOllama returns false without spawning any install command, and
\* the error thrown by installOllamaMacOS does not leave installOllama:
\* setupOllama prints its warning and returns.
C20_BrewPrecondition ==
  /\ brew # "none" => platform = "macos" /\ shouldInstall
  /\ Has(log, "brew") => brew = "found"
  /\ (platform = "macos" /\ installOutcome # "none") => brew # "none"
  /\ brew = "found" => Has(log, "brew")
  /\ brew = "missing"
       => /\ ~Spawned(InstallCommands)
          /\ ~installSuccess
          /\ installOutcome = "brewMissing"
          /\ Has(out, "installFailed")
          /\ spc \in {"installResult", "done"}
          /\ spc = "done" => Has(out, "installNotCompleted")
          /\ ~Spawned(ServiceCommands \cup ProvisionCommands)
          /\ pc # "crashed"
          /\ exitCode > 0 => exitCause = "directoryExists"

C20_Witness ==
  /\ brew = "missing"
  /\ installOutcome = "brewMissing"
  /\ pc = "done"
  /\ generated
  /\ ~Spawned(InstallCommands)

RunFailed(r) == r \in {"exitN", "signal", "error"}

\* C21  Attached run-to-completion: runCommand resolves if and only if the
\* child exits with code 0; another code, a null code or a spawn error
\* rejects, and each caller (brew install, pull, dependency install) prints
\* its warning and goes on: the step ends, main moves on, and no process
\* exit is caused by the rejection.
C21_RunToCompletion ==
  /\ depsResult # "none"
       => /\ Has(out, "depsInstalled") <=> depsResult = "exit0"
          /\ Has(out, "depsFailed") <=> RunFailed(depsResult)
          /\ pc \notin {"deps", "depsWait", "exited"}
  /\ pull # "none"
       => /\ Has(out, "modelReady") <=> pull = "exit0"
          /\ Has(out, "pullFailed") <=> RunFailed(pull)
          /\ spc = "done"
  /\ (platform = "macos" /\ brew = "found" /\ installOutcome # "none")
       => /\ installSuccess <=> installOutcome = "exit0"
          /\ Has(out, "installFailed") <=> RunFailed(installOutcome)
          /\ RunFailed(installOutcome) => spc \in {"installResult", "done"}
  /\ exitCode > 0
       => \/ exitCause \in {"noAgentName", "directoryExists"}
          \/ exitCause = "uncaughtException" /\ serve = "error"

C21_Witness ==
  /\ platform = "macos"
  /\ installOutcome = "signal"
  /\ depsResult = "error"
  /\ pc = "done"
  /\ generated
  /\ Count(out, "installFailed") = 1
  /\ Count(out, "depsFailed") = 1

\* The steps that touch the host's package manager or service manager and
\* have been started but have not ended.
InFlight ==
  { st \in {"runtimeInstall", "dependencyInstall", "serviceStart", "pull"} :
      \/ st = "runtimeInstall" /\ spc \in {"brew", "linuxInstall"}
      \/ st = "dependencyInstall" /\ pc = "depsWait"
      \/ st = "serviceStart" /\ spc \in {"serve", "settle"}
      \/ st = "pull" /\ spc = "pull" }

PipelineIdle == spc \in {"idle", "done"}

\* C22  No parallel installs: at most one of runtime install, dependency
\* install, service start and model pull is in flight; while the dependency
\* installation runs no setupOllama call is in progress, and the
\* opportunistic setupOllama call starts after the dependency installation
\* has ended and never runs a runtime install.
C22_NoParallelInstalls ==
  /\ Cardinality(InFlight) <= 1
  /\ pc \in {"generate", "deps", "depsWait", "kickoff"} => PipelineIdle
  /\ ~PipelineIdle => pc \in {"awaitSetup", "callSetup", "race", "report",
                              "done", "crashed"}
  /\ kickoff # NoTimer
       => /\ depsResult # "none"
          /\ ~shouldInstall
          /\ "runtimeInstall" \notin InFlight
          /\ ~Spawned(InstallCommands)

C22_Witness ==
  /\ InFlight = {"pull"}
  /\ pc = "race"
  /\ kickoff # NoTimer
  /\ Count(log, "deps") = 1
  /\ RunFailed(depsResult)

ConsentInvocation == shouldInstallOllama

OpportunisticInvocation == kickoff # NoTimer

\* C23  Single pipeline per run: setupOllama is invoked at most once per
\* run.  An invocation starts only while no invocation has been made, the
\* consent invocation and the opportunistic invocation exclude each other,
\* and this holds also when the consented install made the runtime
\* resolvable before line 495 is reached.
C23_SinglePipeline ==
  /\ [][(spc # "check" /\ spc' = "check") => spc = "idle"]_vars
  /\ [](~(ConsentInvocation /\ OpportunisticInvocation))
  /\ [](ConsentInvocation => Prompted /\ IsAffirmative(answer))
  /\ [](OpportunisticInvocation => PresentAtStartup)
  /\ [](spc # "idle" <=> (ConsentInvocation \/ OpportunisticInvocation))
  /\ []((ConsentInvocation /\ pc \in {"kickoff", "report", "done"})
          => spc \in {"done"} /\ shouldInstall)

C23_Witness ==
  /\ ConsentInvocation
  /\ installOutcome = "exit0"
  /\ ollamaInstalled
  /\ ollamaSetupComplete
  /\ pc = "done"
  /\ ~OpportunisticInvocation

\* C24  Listing failure falls through to pull: the listing is made only
\* after the service was verified running; when the listing command fails,
\* "ollama pull" is spawned exactly once; within one invocation it is never
\* spawned more than once, and after a failed pull the step has ended with
\* its warning and nothing is spawned again.
C24_ListingFailureFallsThrough ==
  /\ Count(log, "pull") <= 1
  /\ Count(log, "list") <= 1
  /\ listing # "none" => ServiceVerified
  /\ listing = "fail"
       => /\ Count(log, "pull") = 1
          /\ Has(out, "pulling")
          /\ ~Has(out, "modelAvailable")
          /\ spc \in {"pull", "done"}
  /\ RunFailed(pull)
       => /\ spc = "done"
          /\ Count(log, "pull") = 1
          /\ Count(out, "pullFailed") = 1
          /\ ~Has(out, "modelReady")
          /\ \A i \in 1..Len(log) :
               log[i] = "pull"
                 => \A j \in (i + 1)..Len(log) : log[j] \in {"generate", "deps"}

C24_Witness ==
  /\ listing = "fail"
  /\ pull = "exitN"
  /\ spc = "done"
  /\ pc = "done"
  /\ Count(log, "pull") = 1

\* C25  Launcher exit-code propagation: the launcher exits with the child's
\* exit code when that is a non-zero number, with 0 when the child exited
\* with 0 or without a code, and with 1 when the child could not be
\* spawned; it has not exited while the child is running.
C25_LauncherExitCode ==
  /\ launcher = "exited" <=> launcherCode # NoCode
  /\ launcher = "exited"
       => /\ child \in {"exited", "error"}
          /\ (child = "exited" /\ code.type = "number" /\ code.value # 0)
               => launcherCode = code.value
          /\ (child = "exited" /\ (code.type = "null" \/ code.value = 0))
               => launcherCode = 0
          /\ child = "error" => launcherCode = 1
  /\ child \in {"none", "running"} => launcher # "exited"

C25_Witness ==
  /\ launcher = "exited"
  /\ child = "exited"
  /\ code = Num(MaxExitCode)
  /\ launcherCode = MaxExitCode

====
